---- MODULE Spec2Model ----
(***************************************************************************)
(* A model of the miniOS shell utilities: the directory lister of ls.py    *)
(* (list_directory, print_directory_listing, ls, ls_command and the        *)
(* loading of the module itself) and the size formatter sizeof_fmt of      *)
(* ls.py and fileread.py.                                                  *)
(*                                                                         *)
(* Text is a sequence of one-character strings.  Byte counts are           *)
(* little-endian sequences of base-1024 limbs without leading zeros, so    *)
(* that sizes beyond 2^31 and the int -> float conversion of Python can be *)
(* computed exactly.                                                       *)
(***************************************************************************)
EXTENDS Integers, Sequences, FiniteSets, TLC

VARIABLES
    fsStatus,     \* what the known path is: "missing", "file", "dir", "noperm"
    fsChildren,   \* the children of the known directory: name -> kind
    pc,           \* position of the running ls call
    lsArgs,       \* the parameters ls was called with
    items,        \* the local `items` of ls (result of list_directory)
    out,          \* everything written to standard output, in order
    exc,          \* the exception that escaped, or "none"
    termWidth,    \* what os.get_terminal_size() gave print_directory_listing
    seen,         \* history: the children os.listdir enumerated (name -> kind)
    loadPc,       \* position of the execution of the module body of ls.py
    runAs,        \* "main" (python ls.py) or "import" (import ls)
    lsBinding,    \* what the module global `ls` is bound to
    cmdArgs,      \* the argument string of the last ls_command call
    cmdCall,      \* the arguments of the call ls(...) made by ls_command
    fmt_in,       \* the byte count given to sizeof_fmt
    fmt_out       \* the text sizeof_fmt returned

vars == <<fsStatus, fsChildren, pc, lsArgs, items, out, exc, termWidth, seen,
          loadPc, runAs, lsBinding, cmdArgs, cmdCall, fmt_in, fmt_out>>

fsVars == <<fsStatus, fsChildren>>
lsVars == <<pc, lsArgs, items, out, exc, termWidth, seen>>
modVars == <<loadPc, runAs, lsBinding, cmdArgs, cmdCall>>
fmtVars == <<fmt_in, fmt_out>>

----------------------------------------------------------------------------
(* Bounds of the model.                                                    *)

MaxChildren == 3

MaxWidthSteps == 3

MaxLimbs == 7

MaxArgLen == 5

----------------------------------------------------------------------------
(* Text.                                                                   *)

Max(a, b) == IF a >= b THEN a ELSE b

\* The characters the model uses, in increasing code point order.
CodeOrder ==
    << " ", "'", "-", ".", "/", "0", "1", "2", "3", "4", "5", "6", "7", "8",
       "9", "A", "B", "G", "K", "M", "P", "T", "Y",
       "a", "b", "d", "e", "h", "i", "l", "n", "t", "x" >>

Ord(c) == CHOOSE i \in 1..Len(CodeOrder) : CodeOrder[i] = c

\* str.lower() on one character.
LowerChar(c) == IF c = "A" THEN "a" ELSE IF c = "B" THEN "b" ELSE c

Lower(s) == [i \in 1..Len(s) |-> LowerChar(s[i])]

\* Python's < on str: the first differing code point decides, a proper
\* prefix is smaller.
RECURSIVE StrLess(_, _)
StrLess(s, t) ==
    IF t = <<>> THEN FALSE
    ELSE IF s = <<>> THEN TRUE
    ELSE IF Head(s) = Head(t) THEN StrLess(Tail(s), Tail(t))
    ELSE Ord(Head(s)) < Ord(Head(t))

StartsWith(s, c) == Len(s) > 0 /\ s[1] = c

Contains(s, c) == \E i \in 1..Len(s) : s[i] = c

RECURSIVE Spaces(_)
Spaces(n) == IF n <= 0 THEN <<>> ELSE <<" ">> \o Spaces(n - 1)

\* f"{s:<{w}}": left-justified in a field of at least w characters.
PadLeftJustified(s, w) == s \o Spaces(w - Len(s))

\* f"{s:>{w}}"
PadRightJustified(s, w) == Spaces(w - Len(s)) \o s

----------------------------------------------------------------------------
(* The file system the lister sees.                                        *)

KnownPath == <<".">>

Names ==
    { <<"A">>, <<"a">>, <<"B">>,
      <<"b", ".", "t", "x", "t">>,
      <<".", "h", "i", "d", "d", "e", "n">> }

\* A child is a directory, a regular file, or a symbolic link whose target
\* is missing (os.path.isdir is False, every stat raises OSError).
Kinds == {"dir", "file", "dangling"}

\* os.access(path, os.X_OK) of a child that is not a directory.
CanExecute(name, kind) == kind = "file" /\ name = <<"a">>

\* os.path.getsize of a child that can be stat-ed, in limbs.
SizeOf(name) ==
    IF name = <<"b", ".", "t", "x", "t">> THEN <<100>>
    ELSE IF name = <<".", "h", "i", "d", "d", "e", "n">> THEN <<10>>
    ELSE <<512, 1>>

\* os.path.getmtime of a child that can be stat-ed (seconds, never 0 here).
MTimeOf(name) == 1000 + Len(name)

\* st_blocks of a child that can be stat-ed.
BlocksOf(name) == 8

Directories ==
    UNION { [S -> Kinds] : S \in { T \in SUBSET Names : Cardinality(T) <= MaxChildren } }

\* os.path.exists / os.path.isdir of a path.
StatusOf(path) == IF path = KnownPath THEN fsStatus ELSE "missing"

PathExists(path) == StatusOf(path) # "missing"

PathIsDir(path) == StatusOf(path) \in {"dir", "noperm"}

\* All orders in which os.listdir may return the set S of names.
Orders(S) ==
    { o \in [1..Cardinality(S) -> S] : \A i, j \in 1..Cardinality(S) : o[i] = o[j] => i = j }

----------------------------------------------------------------------------
(* list_directory.                                                         *)

\* The filter with the flag the wrong way round.
SkipWhenShown(name, show_hidden) == show_hidden /\ StartsWith(name, ".")

\* `not show_hidden and item.startswith('.')`: the entry is skipped.
Skip(name, show_hidden) == ~show_hidden /\ StartsWith(name, ".")

\* The dictionary appended for one child that is still listed by os.listdir.
MakeItem(path, name, kind, long_format) ==
    LET is_dir == (kind = "dir")
        statFails == (kind = "dangling")
    IN  [ name |-> name,
          is_dir |-> is_dir,
          size |-> IF long_format /\ ~is_dir /\ ~statFails THEN SizeOf(name) ELSE <<>>,
          mod_time |-> IF long_format /\ ~statFails THEN MTimeOf(name) ELSE 0,
          is_executable |-> (CanExecute(name, kind) /\ ~is_dir),
          full_path |-> path \o <<"/">> \o name ]

\* The key without .lower().
SortKeyCaseSensitive(x) == <<~x.is_dir, x.name>>

\* The sort key `(not x['is_dir'], x['name'].lower())`.
SortKey(x) == <<~x.is_dir, Lower(x.name)>>

\* Python's < on the key tuples: False < True, then the strings.
KeyLess(k1, k2) ==
    IF k1[1] # k2[1] THEN (~k1[1] /\ k2[1]) ELSE StrLess(k1[2], k2[2])

\* list.sort is stable: an element goes after every element that is not
\* greater than it.
RECURSIVE InsertItem(_, _)
InsertItem(sorted, x) ==
    IF sorted = <<>> THEN <<x>>
    ELSE IF KeyLess(SortKey(x), SortKey(Head(sorted)))
         THEN <<x>> \o sorted
         ELSE <<Head(sorted)>> \o InsertItem(Tail(sorted), x)

RECURSIVE SortItems(_)
SortItems(s) ==
    IF s = <<>> THEN <<>>
    ELSE InsertItem(SortItems(SubSeq(s, 1, Len(s) - 1)), s[Len(s)])

\* The loop over os.listdir(path): entries in enumeration order.
RECURSIVE CollectItems(_, _, _, _, _)
CollectItems(path, order, children, show_hidden, long_format) ==
    IF order = <<>> THEN <<>>
    ELSE LET rest == CollectItems(path, Tail(order), children, show_hidden, long_format)
             name == Head(order)
         IN  IF Skip(name, show_hidden) THEN rest
             ELSE <<MakeItem(path, name, children[name], long_format)>> \o rest

\* The value list_directory returns when os.listdir succeeded with `order`.
list_directory(path, order, children, show_hidden, long_format) ==
    SortItems(CollectItems(path, order, children, show_hidden, long_format))

----------------------------------------------------------------------------
(* Byte counts: little-endian base-1024 limbs, no leading zero limb.       *)

Base == 1024

MantissaBits == 53

RECURSIVE Pow2(_)
Pow2(n) == IF n = 0 THEN 1 ELSE 2 * Pow2(n - 1)

\* Number of bits of x, 0 <= x < Base.
RECURSIVE BitLen(_)
BitLen(x) == IF x = 0 THEN 0 ELSE 1 + BitLen(x \div 2)

BitLength(l) == IF l = <<>> THEN 0 ELSE 10 * (Len(l) - 1) + BitLen(l[Len(l)])

AllZero(l) == \A i \in 1..Len(l) : l[i] = 0

\* l + c * Base^(i-1), for a carry c of 0 or 1.
RECURSIVE AddCarryAt(_, _, _)
AddCarryAt(l, i, c) ==
    IF c = 0 THEN l
    ELSE IF i > Len(l) THEN Append(l, c)
    ELSE IF l[i] + c < Base THEN [l EXCEPT ![i] = l[i] + c]
    ELSE AddCarryAt([l EXCEPT ![i] = 0], i + 1, 1)

\* l * m for a small m: Len(l) + 1 limbs, the last one the carry out.
RECURSIVE MulSmallFrom(_, _, _)
MulSmallFrom(l, m, carry) ==
    IF l = <<>> THEN <<carry>>
    ELSE LET p == Head(l) * m + carry
         IN  <<p % Base>> \o MulSmallFrom(Tail(l), m, p \div Base)

MulSmall(l, m) == MulSmallFrom(l, m, 0)

\* The integer made of the limbs of l above the lowest k.
RECURSIVE HighValue(_, _)
HighValue(l, k) ==
    IF Len(l) <= k THEN 0 ELSE l[k + 1] + Base * HighValue(l, k + 1)

\* float(b) for a Python int b: the nearest value with 53 significant bits,
\* ties to the even mantissa (the conversion `num /= 1024.0` performs on its
\* first execution, when num still is the int argument).
ToFloat(l) ==
    IF BitLength(l) <= MantissaBits THEN l
    ELSE LET d == BitLength(l) - MantissaBits
             q == d \div 10
             r == d % 10
             x == l[q + 1]
             kept == x \div Pow2(r)
             halfBit == IF r > 0 THEN (x \div Pow2(r - 1)) % 2
                        ELSE l[q] \div (Base \div 2)
             below == IF r > 0
                      THEN (x % Pow2(r - 1)) # 0 \/ ~AllZero(SubSeq(l, 1, q))
                      ELSE (l[q] % (Base \div 2)) # 0 \/ ~AllZero(SubSeq(l, 1, q - 1))
             up == IF halfBit = 1 /\ (below \/ kept % 2 = 1) THEN 1 ELSE 0
             cleared == [i \in 1..Len(l) |->
                            IF i <= q THEN 0
                            ELSE IF i = q + 1 THEN kept * Pow2(r)
                            ELSE l[i]]
             y == kept * Pow2(r) + up * Pow2(r)
         IN  IF y < Base THEN [cleared EXCEPT ![q + 1] = y]
             ELSE AddCarryAt([cleared EXCEPT ![q + 1] = 0], q + 2, 1)

----------------------------------------------------------------------------
(* sizeof_fmt.                                                             *)

DigitChars == <<"0", "1", "2", "3", "4", "5", "6", "7", "8", "9">>

\* str(n) for an int n >= 0.
RECURSIVE IntToStr(_)
IntToStr(n) ==
    IF n < 10 THEN <<DigitChars[n + 1]>>
    ELSE IntToStr(n \div 10) \o <<DigitChars[(n % 10) + 1]>>

\* The unit list of the for loop, and the unit of the final return.
Units == <<"", "K", "M", "G", "T", "P">>

LastUnit == "Y"

UnitText(u) == IF u = "" THEN <<>> ELSE <<u>>

\* `num` during the loop: the exact value limbs / Base^shift.  shift = 0 is
\* the int argument; after the first division num is a float.
IsBelowBase(num) == Len(num.limbs) <= num.shift + 1

DivideByBase(num) ==
    IF num.shift = 0 THEN [limbs |-> ToFloat(num.limbs), shift |-> 1]
    ELSE [limbs |-> num.limbs, shift |-> num.shift + 1]

\* The format cutting the digits after the first instead of rounding.
FormatTruncating(num) ==
    LET frac == SubSeq(num.limbs, 1, num.shift)
        m == MulSmall(frac, 10)
    IN  IntToStr(HighValue(num.limbs, num.shift)) \o <<".">>
            \o <<DigitChars[m[num.shift + 1] + 1]>>

\* f"{num:.1f}": the decimal with one fractional digit nearest to the exact
\* value, a tie going to the even last digit.
FormatOneDecimal(num) ==
    LET k == num.shift
        whole == HighValue(num.limbs, k)
        frac == [i \in 1..k |-> IF i <= Len(num.limbs) THEN num.limbs[i] ELSE 0]
        m == MulSmall(frac, 10)
        digit == m[k + 1]
        rem == SubSeq(m, 1, k)
        aboveHalf == k > 0 /\ ( rem[k] > Base \div 2
                                \/ (rem[k] = Base \div 2 /\ ~AllZero(SubSeq(rem, 1, k - 1))) )
        isHalf == k > 0 /\ rem[k] = Base \div 2 /\ AllZero(SubSeq(rem, 1, k - 1))
        up == aboveHalf \/ (isHalf /\ digit % 2 = 1)
        tenth == IF up THEN digit + 1 ELSE digit
    IN  IF tenth = 10
        THEN IntToStr(whole + 1) \o <<".", "0">>
        ELSE IntToStr(whole) \o <<".">> \o <<DigitChars[tenth + 1]>>

\* The for loop of sizeof_fmt from unit index i on, and the final return.
RECURSIVE ScaleLoop(_, _, _)
ScaleLoop(num, i, suffix) ==
    IF i > Len(Units)
    THEN FormatOneDecimal(num) \o <<LastUnit>> \o suffix
    ELSE IF IsBelowBase(num)
         THEN FormatOneDecimal(num) \o UnitText(Units[i]) \o suffix
         ELSE ScaleLoop(DivideByBase(num), i + 1, suffix)

sizeof_fmt(b) == ScaleLoop([limbs |-> b, shift |-> 0], 1, <<"B">>)

----------------------------------------------------------------------------
(* Standard output: a sequence of writes.                                  *)

Write(kind, color, name, text) ==
    [kind |-> kind, color |-> color, name |-> name, text |-> text]

\* print(f"ls: cannot access '{path}': No such file or directory")
ErrAccess(path) == Write("err_access", "", path, <<>>)

\* print(f"ls: cannot open directory '{path}': Permission denied")
ErrOpen(path) == Write("err_open", "", path, <<>>)

\* print(f"Directory '{path}' is empty.")
EmptyLine(path) == Write("empty", "", path, <<>>)

\* print(): the line break
NewLine == Write("nl", "", <<>>, <<>>)

get_file_color(is_dir, is_executable) ==
    IF is_dir THEN "94" ELSE IF is_executable THEN "92" ELSE "0"

\* time.strftime('%b %d %H:%M', ...): the text names the minute of the
\* timestamp; the calendar rendering is left out.
format_time(timestamp) == IntToStr(timestamp \div 60)

\* name = item['name'] + "/" if item['is_dir'] else item['name']
DisplayName(item) == IF item.is_dir THEN item.name \o <<"/">> ELSE item.name

RECURSIVE MaxNameLen(_)
MaxNameLen(its) ==
    IF its = <<>> THEN 0 ELSE Max(Len(Head(its).name), MaxNameLen(Tail(its)))

RECURSIVE SumBlocks(_)
SumBlocks(its) ==
    IF its = <<>> THEN 0 ELSE BlocksOf(Head(its).name) + SumBlocks(Tail(its))

----------------------------------------------------------------------------
(* print_directory_listing.                                                *)

TerminalSizes ==
    { [ok |-> FALSE, columns |-> 0] }
        \cup { [ok |-> TRUE, columns |-> 8 * k] : k \in 0..MaxWidthSteps }

\* max_len = max(len(item['name']) for item in items) + 2
ColumnWidth(its) == MaxNameLen(its) + 2

\* cols = max(1, terminal_width // max_len), or 1 after OSError
Columns(tsize, max_len) ==
    IF tsize.ok THEN Max(1, tsize.columns \div max_len) ELSE 1

\* The condition without its second disjunct.
RowEndsOnlyWhenFull(i, cols, n) == i % cols = 0

\* `(i + 1) % cols == 0 or i == len(items) - 1`, for the i-th item counted
\* from 1.
RowEnds(i, cols, n) == i % cols = 0 \/ i = n

CompactCell(item, max_len) ==
    Write("cell", get_file_color(item.is_dir, item.is_executable), item.name,
          PadLeftJustified(DisplayName(item), max_len))

RECURSIVE CompactFrom(_, _, _, _)
CompactFrom(its, i, cols, max_len) ==
    IF i > Len(its) THEN <<>>
    ELSE <<CompactCell(its[i], max_len)>>
            \o (IF RowEnds(i, cols, Len(its)) THEN <<NewLine>> ELSE <<>>)
            \o CompactFrom(its, i + 1, cols, max_len)

\* The else branch of print_directory_listing (lines 112-128).
PrintCompact(its, tsize) ==
    CompactFrom(its, 1, Columns(tsize, ColumnWidth(its)), ColumnWidth(its))

LongRow(item) ==
    Write("row", get_file_color(item.is_dir, item.is_executable), item.name,
          PadLeftJustified(DisplayName(item), 30) \o <<" ">>
            \o PadRightJustified(IF item.is_dir THEN <<>> ELSE sizeof_fmt(item.size), 8)
            \o <<" ">> \o format_time(item.mod_time))

\* The long branch (lines 98-109), when every os.stat succeeded.
PrintLong(its) ==
    <<Write("total", "", <<>>, IntToStr(SumBlocks(its) \div 2))>>
        \o [i \in 1..Len(its) |-> LongRow(its[i])]

\* os.stat(item['full_path']) raises for a child that is gone or dangling.
StatFails(item) ==
    \/ fsStatus # "dir"
    \/ item.name \notin DOMAIN fsChildren
    \/ fsChildren[item.name] = "dangling"

----------------------------------------------------------------------------
(* ls: the function of lines 130-164, in three steps so that the file      *)
(* system can change between the existence check, the enumeration and the  *)
(* printing.                                                               *)

NoArgs == [path |-> <<>>, all_files |-> FALSE, long_format |-> FALSE, made |-> FALSE]

CallArgs(path, all_files, long_format) ==
    [path |-> path, all_files |-> all_files, long_format |-> long_format, made |-> TRUE]

\* Lines 142-159: the checks, and the listing of a single file.
LsEnter(path, all_files, long_format) ==
    /\ lsArgs' = CallArgs(path, all_files, long_format)
    /\ IF ~PathExists(path)
       THEN /\ out' = out \o <<ErrAccess(path)>>
            /\ pc' = "done"
       ELSE IF ~PathIsDir(path)
       THEN /\ \E x \in BOOLEAN :
                 out' = out \o <<Write("file", get_file_color(FALSE, x), path, path)>>
            /\ pc' = "done"
       ELSE /\ out' = out
            /\ pc' = "list"
    /\ UNCHANGED <<items, exc, termWidth, seen>>

ls(path, all_files, long_format) ==
    /\ pc = "idle"
    /\ LsEnter(path, all_files, long_format)
    /\ UNCHANGED <<fsVars, modVars, fmtVars>>

\* Line 162 with list_directory (lines 37-82).
ls_list_directory ==
    /\ pc = "list"
    /\ pc' = "print"
    /\ CASE StatusOf(lsArgs.path) = "dir" ->
                /\ \E order \in Orders(DOMAIN fsChildren) :
                      items' = list_directory(lsArgs.path, order, fsChildren,
                                              lsArgs.all_files, lsArgs.long_format)
                /\ seen' = fsChildren
                /\ out' = out
         [] StatusOf(lsArgs.path) = "noperm" ->
                /\ items' = <<>>
                /\ out' = out \o <<ErrOpen(lsArgs.path)>>
                /\ UNCHANGED seen
         [] OTHER ->
                /\ items' = <<>>
                /\ out' = out \o <<ErrAccess(lsArgs.path)>>
                /\ UNCHANGED seen
    /\ UNCHANGED <<lsArgs, exc, termWidth, fsVars, modVars, fmtVars>>

\* Line 163 with print_directory_listing (lines 92-128), and the return.
ls_print_directory_listing ==
    /\ pc = "print"
    /\ IF items = <<>>
       THEN /\ out' = out \o <<EmptyLine(lsArgs.path)>>
            /\ pc' = "done"
            /\ UNCHANGED <<exc, termWidth>>
       ELSE IF lsArgs.long_format
       THEN IF \E i \in 1..Len(items) : StatFails(items[i])
            THEN /\ exc' = "FileNotFoundError"
                 /\ pc' = "raised"
                 /\ UNCHANGED <<out, termWidth>>
            ELSE /\ out' = out \o PrintLong(items)
                 /\ pc' = "done"
                 /\ UNCHANGED <<exc, termWidth>>
       ELSE /\ \E tsize \in TerminalSizes :
                 /\ termWidth' = tsize
                 /\ out' = out \o PrintCompact(items, tsize)
            /\ pc' = "done"
            /\ UNCHANGED exc
    /\ UNCHANGED <<lsArgs, items, seen, fsVars, modVars, fmtVars>>

\* Another process removes the directory after ls has checked it.
EnvRemovePath ==
    /\ pc = "list"
    /\ fsStatus \in {"dir", "noperm"}
    /\ fsStatus' = "missing"
    /\ fsChildren' = <<>>
    /\ UNCHANGED <<lsVars, modVars, fmtVars>>

\* Another process removes a child after it has been enumerated.
EnvRemoveChild ==
    /\ pc = "print"
    /\ fsStatus = "dir"
    /\ \E c \in DOMAIN fsChildren :
          fsChildren' = [n \in (DOMAIN fsChildren) \ {c} |-> fsChildren[n]]
    /\ UNCHANGED <<fsStatus, lsVars, modVars, fmtVars>>

----------------------------------------------------------------------------
(* ls_command (lines 168-204).                                             *)

ArgChars == {"-", "a", "l", "h", " ", "'"}

ArgStrings == UNION { [1..n -> ArgChars] : n \in 0..MaxArgLen }

\* shlex.split on text made of ArgChars: blanks separate the words, '...'
\* quotes any text (a word may be empty), an open quote at the end is the
\* ValueError "No closing quotation".
RECURSIVE ShlexFrom(_, _, _, _, _, _)
ShlexFrom(s, i, tok, hasTok, inQuote, toks) ==
    IF i > Len(s)
    THEN IF inQuote THEN [ok |-> FALSE, words |-> <<>>]
         ELSE [ok |-> TRUE, words |-> IF hasTok THEN Append(toks, tok) ELSE toks]
    ELSE IF inQuote
         THEN IF s[i] = "'"
              THEN ShlexFrom(s, i + 1, tok, hasTok, FALSE, toks)
              ELSE ShlexFrom(s, i + 1, Append(tok, s[i]), hasTok, TRUE, toks)
         ELSE IF s[i] = " "
              THEN IF hasTok
                   THEN ShlexFrom(s, i + 1, <<>>, FALSE, FALSE, Append(toks, tok))
                   ELSE ShlexFrom(s, i + 1, <<>>, FALSE, FALSE, toks)
              ELSE IF s[i] = "'"
                   THEN ShlexFrom(s, i + 1, tok, TRUE, TRUE, toks)
                   ELSE ShlexFrom(s, i + 1, Append(tok, s[i]), TRUE, FALSE, toks)

ShlexSplit(s) == ShlexFrom(s, 1, <<>>, FALSE, FALSE, <<>>)

\* The loop `for arg in args_list` (lines 186-201); help marks the return
\* of line 198.
RECURSIVE ScanArgs(_, _)
ScanArgs(args_list, st) ==
    IF args_list = <<>> THEN st
    ELSE LET arg == Head(args_list)
         IN  IF StartsWith(arg, "-")
             THEN LET st1 == [st EXCEPT
                                !.all_files = st.all_files \/ Contains(arg, "a"),
                                !.long_format = st.long_format \/ Contains(arg, "l")]
                  IN  IF Contains(arg, "h") THEN [st1 EXCEPT !.help = TRUE]
                      ELSE ScanArgs(Tail(args_list), st1)
             ELSE ScanArgs(Tail(args_list), [st EXCEPT !.path = arg])

UsageLines ==
    [i \in 1..5 |-> Write("usage", "", <<>>, IntToStr(i))]

ls_command(args, base_dir) ==
    /\ pc = "idle"
    /\ cmdArgs' = args
    /\ LET sh == ShlexSplit(args)
           st == ScanArgs(sh.words, [path |-> base_dir, all_files |-> FALSE,
                                     long_format |-> FALSE, help |-> FALSE])
       IN  IF ~sh.ok
           THEN /\ out' = out \o <<Write("err_parse", "", <<>>, args)>>
                /\ pc' = "done"
                /\ UNCHANGED <<cmdCall, lsArgs, items, exc, termWidth, seen>>
           ELSE IF st.help
           THEN /\ out' = out \o UsageLines
                /\ pc' = "done"
                /\ UNCHANGED <<cmdCall, lsArgs, items, exc, termWidth, seen>>
           ELSE /\ cmdCall' = CallArgs(st.path, st.all_files, st.long_format)
                /\ IF lsBinding = "main"
                   THEN LsEnter(st.path, st.all_files, st.long_format)
                   ELSE \* ls() takes 0 positional arguments but 3 were given
                        /\ exc' = "TypeError"
                        /\ pc' = "raised"
                        /\ UNCHANGED <<lsArgs, items, out, termWidth, seen>>
    /\ UNCHANGED <<fsVars, fmtVars>>

----------------------------------------------------------------------------
(* The execution of the module body of ls.py, top to bottom.               *)

\* Lines 1-128: the imports and the helper functions.
LoadHelpers ==
    /\ loadPc = "start"
    /\ loadPc' = "def_ls"
    /\ UNCHANGED <<runAs, lsBinding, cmdArgs, cmdCall, fsVars, lsVars, fmtVars>>

\* Line 130: def ls(path=".", all_files=False, long_format=False, **kwargs)
LoadDefLs ==
    /\ loadPc = "def_ls"
    /\ lsBinding' = "main"
    /\ loadPc' = "def_ls_command"
    /\ UNCHANGED <<runAs, cmdArgs, cmdCall, fsVars, lsVars, fmtVars>>

\* Lines 166-168: import shlex; def ls_command(args="", base_dir=".")
LoadDefLsCommand ==
    /\ loadPc = "def_ls_command"
    /\ loadPc' = "main_guard"
    /\ UNCHANGED <<runAs, lsBinding, cmdArgs, cmdCall, fsVars, lsVars, fmtVars>>

\* Lines 207-208: if __name__ == "__main__": ls_command()
LoadMainGuard ==
    /\ loadPc = "main_guard"
    /\ loadPc' = "simple"
    /\ IF runAs = "main"
       THEN /\ ls_command(<<>>, KnownPath)
            /\ UNCHANGED <<runAs, lsBinding>>
       ELSE UNCHANGED <<runAs, lsBinding, cmdArgs, cmdCall, fsVars, lsVars, fmtVars>>

\* Lines 211-225: import os; current_dir = os.getcwd(); def ls(); def cd(path).
\* Reached when the call of line 208, if any, has returned.
LoadSimpleLs ==
    /\ loadPc = "simple"
    /\ pc \in {"idle", "done"}
    /\ lsBinding' = "simple"
    /\ loadPc' = "loaded"
    /\ UNCHANGED <<runAs, cmdArgs, cmdCall, fsVars, lsVars, fmtVars>>

\* Code that has imported the module calls ls.ls_command(args, base_dir).
ImportedCall ==
    /\ loadPc = "loaded"
    /\ runAs = "import"
    /\ \E args \in ArgStrings : ls_command(args, KnownPath)
    /\ UNCHANGED <<loadPc, runAs, lsBinding>>

----------------------------------------------------------------------------
(* sizeof_fmt applied to a byte count.                                     *)

TopLimbs == {1, 8, 100, 512, 1023}

SecondLimbs == {0, 1, 51, 52, 256, 512, 1023}

FillLimbs == {0, 1, 1023}

ByteCounts ==
    {<<>>}
        \cup { <<t>> : t \in TopLimbs }
        \cup { [i \in 1..n |-> IF i = n THEN t ELSE IF i = n - 1 THEN s ELSE f] :
                 n \in 2..MaxLimbs, t \in TopLimbs, s \in SecondLimbs, f \in FillLimbs }

sizeof_fmt_call ==
    /\ fmt_out = <<>>
    /\ fmt_out' = sizeof_fmt(fmt_in)
    /\ UNCHANGED <<fmt_in, fsVars, lsVars, modVars>>

----------------------------------------------------------------------------
(* Specifications.                                                         *)

ExampleChildren ==
    [n \in { <<"A">>, <<"b", ".", "t", "x", "t">>, <<".", "h", "i", "d", "d", "e", "n">> } |->
        IF n = <<"A">> THEN "dir" ELSE "file"]

OtherPath == <<"x">>

InitLs ==
    /\ pc = "idle"
    /\ lsArgs = NoArgs
    /\ items = <<>>
    /\ out = <<>>
    /\ exc = "none"
    /\ termWidth = [ok |-> FALSE, columns |-> 0]
    /\ seen = <<>>

InitFmtIdle ==
    /\ fmt_in = <<>>
    /\ fmt_out = <<"0", ".", "0", "B">>

\* Calls of the three-parameter function ls of line 130 by a caller that
\* holds it, with any path and flags, on any directory of up to MaxChildren
\* children; the module global `ls` is that function here.
Init ==
    /\ \/ fsStatus \in {"missing", "file"} /\ fsChildren = <<>>
       \/ fsStatus \in {"dir", "noperm"} /\ fsChildren \in Directories
    /\ InitLs
    /\ loadPc = "main_guard"
    /\ runAs = "main"
    /\ lsBinding = "main"
    /\ cmdArgs = <<>>
    /\ cmdCall = NoArgs
    /\ InitFmtIdle

Next ==
    \/ \E path \in {KnownPath, OtherPath}, all_files \in BOOLEAN, long_format \in BOOLEAN :
          ls(path, all_files, long_format)
    \/ ls_list_directory
    \/ ls_print_directory_listing
    \/ EnvRemovePath
    \/ EnvRemoveChild

Spec == Init /\ [][Next]_vars

\* python ls.py, or import ls followed by a call of ls_command.
InitCmd ==
    /\ fsStatus \in {"dir", "noperm"}
    /\ fsChildren = ExampleChildren
    /\ InitLs
    /\ loadPc = "start"
    /\ runAs \in {"main", "import"}
    /\ lsBinding = "unbound"
    /\ cmdArgs = <<>>
    /\ cmdCall = NoArgs
    /\ InitFmtIdle

NextCmd ==
    \/ LoadHelpers
    \/ LoadDefLs
    \/ LoadDefLsCommand
    \/ LoadMainGuard
    \/ LoadSimpleLs
    \/ ImportedCall
    \/ ls_list_directory
    \/ ls_print_directory_listing

SpecCmd == InitCmd /\ [][NextCmd]_vars

\* sizeof_fmt on the byte counts of ByteCounts.
InitFmt ==
    /\ fsStatus = "missing"
    /\ fsChildren = <<>>
    /\ InitLs
    /\ loadPc = "loaded"
    /\ runAs = "import"
    /\ lsBinding = "simple"
    /\ cmdArgs = <<>>
    /\ cmdCall = NoArgs
    /\ fmt_in \in ByteCounts
    /\ fmt_out = <<>>

NextFmt == sizeof_fmt_call

SpecFmt == InitFmt /\ [][NextFmt]_vars

----------------------------------------------------------------------------
(* Properties.                                                             *)

NameA == <<"A">>
NameBtxt == <<"b", ".", "t", "x", "t">>
NameHidden == <<".", "h", "i", "d", "d", "e", "n">>

ItemNames == [i \in 1..Len(items) |-> items[i].name]

OutKinds == {out[i].kind : i \in 1..Len(out)}

\* list_directory has returned from a successful enumeration.
ListedOk ==
    /\ pc \in {"print", "done", "raised"}
    /\ lsArgs.made
    /\ OutKinds \cap {"err_access", "err_open", "file"} = {}

\* print_directory_listing has printed a non-empty listing in compact mode.
CompactPrinted ==
    /\ pc = "done"
    /\ lsArgs.made
    /\ ~lsArgs.long_format
    /\ items # <<>>

\* C1: the sequence list_directory returns has every directory before every
\* non-directory, and inside each of the two groups the lower-cased names
\* never decrease.
C1_DirectoriesFirstThenLowerCasedOrder ==
    \A i, j \in 1..Len(items) :
        i < j =>
            /\ ~(~items[i].is_dir /\ items[j].is_dir)
            /\ (items[i].is_dir = items[j].is_dir
                    => ~StrLess(Lower(items[j].name), Lower(items[i].name)))

C1_Witness ==
    /\ ListedOk
    /\ Len(items) = 3
    /\ items[1].is_dir
    /\ items[1].name = NameBtxt
    /\ items[2].name = <<"a">>
    /\ items[3].name = <<"B">>

\* C2: after a successful enumeration, with show_hidden=False no returned
\* entry starts with '.' and every child not starting with '.' is returned;
\* with show_hidden=True every child is returned; each child once.  The
\* children {b.txt, A (directory), .hidden} give [A, b.txt] and
\* [A, .hidden, b.txt].
C2_HiddenFilter ==
    ListedOk =>
        /\ {items[i].name : i \in 1..Len(items)}
              = {n \in DOMAIN seen : lsArgs.all_files \/ ~StartsWith(n, ".")}
        /\ \A i, j \in 1..Len(items) : items[i].name = items[j].name => i = j
        /\ ~lsArgs.all_files => \A i \in 1..Len(items) : ~StartsWith(items[i].name, ".")
        /\ seen = ExampleChildren =>
              ItemNames = IF lsArgs.all_files THEN <<NameA, NameHidden, NameBtxt>>
                          ELSE <<NameA, NameBtxt>>

C2_Witness ==
    /\ ListedOk
    /\ seen = ExampleChildren
    /\ ~lsArgs.all_files
    /\ ItemNames = <<NameA, NameBtxt>>

\* The number of divisions by 1024 the claim describes: while the value is
\* >= 1024 and a larger unit remains.
C3_Divisions(b) == IF Len(b) <= 1 THEN 0 ELSE IF Len(b) - 1 < 6 THEN Len(b) - 1 ELSE 6

C3_AllUnits == <<"", "K", "M", "G", "T", "P", "Y">>

\* text is b / 1024^k rounded to one fractional digit (either neighbour on a
\* tie), followed by the k-th unit and "B".
C3_Rendered(b, text) ==
    LET k == C3_Divisions(b)
        m == MulSmall(b, 10)
        q == HighValue(m, k)
        rem == SubSeq(m, 1, k)
        half == [i \in 1..k |-> IF i = k THEN 512 ELSE 0]
        remAtMostHalf == k = 0 \/ rem = half \/ rem[k] < 512
        remAtLeastHalf == k > 0 /\ rem[k] >= 512
        Show(t) == IntToStr(t \div 10) \o <<".">> \o IntToStr(t % 10)
                      \o UnitText(C3_AllUnits[k + 1]) \o <<"B">>
    IN  \/ remAtMostHalf /\ text = Show(q)
        \/ remAtLeastHalf /\ text = Show(q + 1)

C3_Examples ==
    /\ fmt_in = <<>> => fmt_out = <<"0", ".", "0", "B">>
    /\ fmt_in = <<1023>> => fmt_out = <<"1", "0", "2", "3", ".", "0", "B">>
    /\ fmt_in = <<0, 1>> => fmt_out = <<"1", ".", "0", "K", "B">>
    /\ fmt_in = <<512, 1>> => fmt_out = <<"1", ".", "5", "K", "B">>
    /\ fmt_in = <<0, 0, 0, 0, 1>> => fmt_out = <<"1", ".", "0", "T", "B">>

\* C3 as stated: for every byte count b >= 0 sizeof_fmt(b) is the value
\* scaled by the claim's divisions, rounded to one fractional digit, with the
\* unit letter and "B"; and the five examples.
C3_EveryByteCount ==
    fmt_out # <<>> => C3_Rendered(fmt_in, fmt_out) /\ C3_Examples

\* C3 amended: the same for every byte count b < 2^53, the ints a float
\* holds exactly.
C3_ByteCountsExactInFloat ==
    (fmt_out # <<>> /\ BitLength(fmt_in) <= 53) =>
        C3_Rendered(fmt_in, fmt_out) /\ C3_Examples

C3_Witness ==
    /\ fmt_in = <<1023, 1023>>
    /\ fmt_out = <<"1", "0", "2", "4", ".", "0", "K", "B">>

\* C4: when the enumeration inside ls fails with NotFound or
\* PermissionDenied, the error message is the only output of the call.
C4_ErrorShortCircuitsRendering ==
    (pc = "done" /\ OutKinds \cap {"err_access", "err_open"} # {}) => Len(out) = 1

\* C5: in a long-format listing no exception escapes ls, and when ls has
\* returned every enumerated child has its row.
C5_StatFailureTolerated ==
    (lsArgs.made /\ lsArgs.long_format) =>
        /\ exc = "none"
        /\ pc # "raised"
        /\ (pc = "done" /\ items # <<>>) =>
              \A i \in 1..Len(items) :
                  \E p \in 1..Len(out) : out[p].kind = "row" /\ out[p].name = items[i].name

\* The column count the claim names, from the width the entries are padded to.
C6_Cols == IF termWidth.ok THEN Max(1, termWidth.columns \div Len(out[1].text)) ELSE 1

C6_PosOfEntry(i) == i + ((i - 1) \div C6_Cols)

RECURSIVE C7_MaxDisplayedLen(_)
C7_MaxDisplayedLen(its) ==
    IF its = <<>> THEN 0
    ELSE Max(Len(DisplayName(Head(its))), C7_MaxDisplayedLen(Tail(its)))

\* C7: in compact mode every displayed name is padded to the width of the
\* longest displayed name (a directory's name with its '/') plus 2.
C7_WidthFromDisplayedNames ==
    CompactPrinted =>
        \A p \in 1..Len(out) :
            out[p].kind = "cell" => Len(out[p].text) = C7_MaxDisplayedLen(items) + 2

\* C8: for the enumerated children and the flags, list_directory returns
\* the same sequence whatever order the host enumerates them in.
C8_OrderIndependent ==
    ListedOk =>
        \A o \in Orders(DOMAIN seen) :
            list_directory(lsArgs.path, o, seen, lsArgs.all_files, lsArgs.long_format)
                = items

\* C9: once the module has been loaded by import, a call of ls_command that
\* reaches the dispatch invokes the three-parameter ls with the parsed
\* arguments and raises no exception.
C9_DispatchReachesMainLs ==
    (runAs = "import" /\ loadPc = "loaded" /\ cmdCall.made) =>
        /\ exc = "none"
        /\ lsArgs = cmdCall

C10_Words == ShlexSplit(cmdArgs).words

C10_IsFlag(w) == StartsWith(w, "-")

C10_FirstPath ==
    IF \E i \in 1..Len(C10_Words) : ~C10_IsFlag(C10_Words[i])
    THEN C10_Words[CHOOSE i \in 1..Len(C10_Words) :
                      /\ ~C10_IsFlag(C10_Words[i])
                      /\ \A j \in 1..(i - 1) : C10_IsFlag(C10_Words[j])]
    ELSE KnownPath

\* C10: the path ls_command passes on is the first argument that does not
\* start with '-' (base_dir when there is none), and all_files / long_format
\* are set exactly when an argument starting with '-' contains 'a' / 'l'.
C10_FirstNonFlagIsPath ==
    cmdCall.made =>
        /\ cmdCall.path = C10_FirstPath
        /\ cmdCall.all_files
              = (\E i \in 1..Len(C10_Words) :
                    C10_IsFlag(C10_Words[i]) /\ Contains(C10_Words[i], "a"))
        /\ cmdCall.long_format
              = (\E i \in 1..Len(C10_Words) :
                    C10_IsFlag(C10_Words[i]) /\ Contains(C10_Words[i], "l"))

====
